---- MODULE Spec2Model ----
(***************************************************************************)
(* SpotiTransfer: the two generators of src/spotify_service.py and the     *)
(* routes of src/app.py that drive them.                                   *)
(*                                                                         *)
(*   get_all_saved_tracks  paginated extraction of the source library      *)
(*   transfer_tracks       ordered (one by one) or batched re-insertion    *)
(*   login, callback       the OAuth round trip and the session            *)
(*   fetch_stream          runs the extraction, writes .tracks_cache.json  *)
(*   show_tracks, transfer, transfer_stream   read .tracks_cache.json      *)
(*   reset                 clears the session, removes the file            *)
(*                                                                         *)
(* Each generator is a state machine whose steps are the API calls it      *)
(* issues together with the events it yields in answer to each call.  The  *)
(* API is the environment: every call is answered nondeterministically     *)
(* with a success, a rate limit (429), another HTTP status or a raised     *)
(* exception.  xfer_log and fetch_log record, in program order, every call *)
(* (with the answer it got) and every event yielded.                       *)
(*                                                                         *)
(* added_at is an ISO-8601 string in the program, compared as a string;    *)
(* here it is a natural number compared with <=, which is the same total   *)
(* order on equal-format timestamps.                                       *)
(***************************************************************************)
EXTENDS Naturals, Sequences, FiniteSets, TLC

VARIABLES
    \* transfer_tracks
    tracks,          \* argument: the snapshot, a sequence of track records
    preserve_order,  \* argument
    tracks_sorted,   \* local (ordered mode)
    transferred,     \* local
    i,               \* local: loop index (ordered: 0-based position; batch: start index)
    xfer_pc,         \* "init" | "loop" | "retry" | "done"
    xfer_log,        \* calls issued and events yielded, in order
    xfer_faults,     \* number of non-success answers the destination has given
    \* get_all_saved_tracks
    library,         \* the source library as the API serves it
    offset,          \* local
    total,           \* local: None or Some(the first reported total)
    fetch_pc,        \* "loop" | "done" | "aborted"
    fetch_log,       \* page requests issued and events yielded, in order
    fetch_limited,   \* number of rate-limit answers the source has given
    \* app.py
    session,         \* the Flask session of the browser: a function key -> value
    cache,           \* the file .tracks_cache.json
    http             \* the last request a route handled, and its response

xfer_vars == <<tracks, preserve_order, tracks_sorted, transferred, i, xfer_pc,
               xfer_log, xfer_faults>>
fetch_vars == <<library, offset, total, fetch_pc, fetch_log, fetch_limited>>
app_vars == <<session, cache, http>>
vars == <<xfer_vars, fetch_vars, app_vars>>

(***************************************************************************)
(* Bounds of the model.                                                    *)
(***************************************************************************)
\* short snapshots: every sequence of at most MaxShort records
MaxShort == 3
\* long snapshots (newest first, distinct ids) have MaxLen-1 or MaxLen records
MaxLen == 11
\* batch mode is also run on long snapshots of batch_size..MaxBatchLen records
MaxBatchLen == 51
\* non-success answers of the destination per run
MaxFaults == 2
\* rate-limit answers of the source per run
MaxRateLimits == 2
\* the total a page reports is the library size, or differs from it by MaxDrift
MaxDrift == 1

(***************************************************************************)
(* Program constants.                                                      *)
(***************************************************************************)
limit == 50
batch_size == 50
ProgressEvery == 10
DefaultRetryAfter == 30

\* added_at values and id patterns of the records of short snapshots
Stamps == {1, 2, 3}
IdPatterns == {"distinct", "same"}

\* sizes of the source library: no page, one, two and three pages of items
LibrarySizes == {0, 1, limit, limit + 1, 2 * limit + 1}

\* Python's None, and a value that is not None
None == <<>>
Some(x) == <<x>>
\* response.headers without / with a Retry-After entry
NoHeader == <<>>
RetryAfterHeader(n) == <<n>>

Last(s) == s[Len(s)]

Min(a, b) == IF a <= b THEN a ELSE b

\* the positions of the entries of a type in a log
Positions(log, type) == {p \in 1..Len(log) : log[p].type = type}

\* track['name'] of the track with a given id
NameOf(id) == <<"name", id>>

TrackRecord(id, added_at) == [id |-> id, name |-> NameOf(id), added_at |-> added_at]

(***************************************************************************)
(* sorted(tracks, key=lambda t: t['added_at']): Python's sort is stable.   *)
(* It is computed here as an insertion sort that takes the records in      *)
(* input order and puts each behind every record already placed whose key  *)
(* is <= its own, so equal keys keep their input order.                    *)
(***************************************************************************)
InsertAt(s, t, k) == SubSeq(s, 1, k) \o <<t>> \o SubSeq(s, k + 1, Len(s))

Insert(s, t) ==
    InsertAt(s, t, Cardinality({j \in 1..Len(s) : s[j].added_at <= t.added_at}))

\* the first n records of s, sorted (the bound p holds the sorted prefix as a value)
RECURSIVE SortPrefix(_, _)
SortPrefix(s, n) ==
    IF n = 0 THEN <<>>
    ELSE CHOOSE r \in {Insert(p, s[n]) : p \in {SortPrefix(s, n - 1)}} : TRUE

\* a sort that puts a record in front of the records with the same key
sorted_unstable(s) ==
    LET RECURSIVE Pre(_)
        Pre(n) ==
            IF n = 0 THEN <<>>
            ELSE CHOOSE r \in
                   {InsertAt(p, s[n],
                        Cardinality({j \in 1..Len(p) : p[j].added_at < s[n].added_at})) :
                    p \in {Pre(n - 1)}} : TRUE
    IN  Pre(Len(s))

sorted(s) == SortPrefix(s, Len(s))

(***************************************************************************)
(* The answers of the destination to requests.put (ordered mode).          *)
(*   raised = TRUE : requests.put raised (connection error, timeout)       *)
(*   otherwise a response with a status code and, for 429, a Retry-After   *)
(*   header that is absent or holds a number.                              *)
(***************************************************************************)
PutRaises == [raised |-> TRUE, status |-> 0, header |-> NoHeader]
PutResponse(status, header) == [raised |-> FALSE, status |-> status, header |-> header]

\* 401 stands for every status that is neither a success nor 429
PutAnswers ==
    {PutRaises, PutResponse(200, NoHeader), PutResponse(401, NoHeader),
     PutResponse(429, RetryAfterHeader(5))}

IsFault(ans) == ans.raised \/ ans.status # 200

\* int(response.headers.get('Retry-After', 30))
retry_after(header) == IF header = NoHeader THEN DefaultRetryAfter ELSE header[1]

(***************************************************************************)
(* Log entries of transfer_tracks.                                         *)
(***************************************************************************)
\* requests.put(..., json={"ids": [track['id']]}); attempt 1 is line 96, 2 is line 107
PutCall(track, attempt, ans) ==
    [type |-> "put", id |-> track.id, attempt |-> attempt, answer |-> ans]

\* sp_client.current_user_saved_tracks_add(tracks=track_ids)
AddCall(ids, ok) == [type |-> "add", ids |-> ids, ok |-> ok]

RateLimitEvent(seconds) == [type |-> "rate_limit", retry_after |-> seconds]

\* int((transferred / total) * 100)
percent(n, tot) == (n * 100) \div tot

ProgressEvent(n, tot, track) ==
    [type |-> "progress", transferred |-> n, total |-> tot,
     percent |-> percent(n, tot), current_track |-> track.name]

BatchProgressEvent(n, tot) ==
    [type |-> "progress", transferred |-> n, total |-> tot, percent |-> percent(n, tot)]

ErrorEvent(track) == [type |-> "error", track |-> track.name]

BatchErrorEvent(start) == [type |-> "error", batch |-> start]

CompleteEvent(n, tot) == [type |-> "complete", transferred |-> n, total |-> tot]

\* total = len(tracks)
xfer_total == Len(tracks)

\* if transferred % 10 == 0 or transferred == total
ProgressDue(n, tot) == n % ProgressEvery = 0 \/ n = tot

(***************************************************************************)
(* transfer_tracks                                                         *)
(***************************************************************************)
\* ids of a short snapshot: all different, or all the same
IdAt(pattern, k) == IF pattern = "distinct" THEN k ELSE 1

ShortSnapshots ==
    UNION {{[k \in 1..n |-> TrackRecord(IdAt(pattern, k), stamps[k])] :
                stamps \in [1..n -> Stamps], pattern \in IdPatterns} :
           n \in 0..MaxShort}

\* a library snapshot as extraction leaves it: newest first, distinct ids
LongSnapshot(n) == [k \in 1..n |-> TrackRecord(k, n - k + 1)]

Snapshots(ordered) ==
    ShortSnapshots
    \cup {LongSnapshot(n) : n \in (MaxLen - 1)..MaxLen}
    \cup (IF ordered THEN {} ELSE {LongSnapshot(n) : n \in batch_size..MaxBatchLen})

(***************************************************************************)
(* The state of app.py: the session, the snapshot file, the last response. *)
(*                                                                         *)
(* A string that the code takes apart (the OAuth state, an account type)   *)
(* is a sequence of tokens: "source:n1" is <<"source", ":", "n1">>.  A     *)
(* session key is <<account type, suffix>>: 'source_token' is              *)
(* <<<<"source">>, "_token">>, and 'oauth_state' is <<<<>>, "oauth_state">>. *)
(***************************************************************************)
EmptySession == [k \in {} |-> k]
Get(sess, key, default) == IF key \in DOMAIN sess THEN sess[key] ELSE default
Put(sess, key, value) ==
    [k \in DOMAIN sess \cup {key} |-> IF k = key THEN value ELSE sess[k]]
Pop(sess, key) == [k \in DOMAIN sess \ {key} |-> sess[k]]

OauthStateKey == <<<<>>, "oauth_state">>
TracksKey == <<<<>>, "tracks">>
TokenKey(account_type) == <<account_type, "_token">>
UserKey(account_type) == <<account_type, "_user">>
source == <<"source">>
dest == <<"dest">>

\* the file: absent; opened for writing and not yet closed; or holding the
\* JSON of a list of track records
Absent == [exists |-> FALSE, complete |-> FALSE, tracks |-> <<>>]
Truncated == [exists |-> TRUE, complete |-> FALSE, tracks |-> <<>>]
Written(list) == [exists |-> TRUE, complete |-> TRUE, tracks |-> list]

\* a response; seen is what the handler read from the file, when it read it;
\* state and code are the query arguments of /callback (for /login, state is
\* the state sent to the authorization server)
Response(route, status) ==
    [route |-> route, status |-> status, seen |-> Absent, state |-> <<>>, code |-> ""]
NoResponse == Response("", "")

AppIdle ==
    /\ session = EmptySession
    /\ cache = Absent
    /\ http = NoResponse

FetchIdle ==
    /\ library = <<>>
    /\ offset = 0
    /\ total = None
    /\ fetch_pc = "idle"
    /\ fetch_log = <<>>
    /\ fetch_limited = 0

TransferInit ==
    /\ preserve_order \in BOOLEAN
    /\ tracks \in Snapshots(preserve_order)
    /\ tracks_sorted = <<>>
    /\ transferred = 0
    /\ i = 0
    /\ xfer_pc = "init"
    /\ xfer_log = <<>>
    /\ xfer_faults = 0
    /\ FetchIdle
    /\ AppIdle

\* the environment gives at most MaxFaults non-success answers per run
Answer(ans) ==
    /\ IsFault(ans) => xfer_faults < MaxFaults
    /\ xfer_faults' = IF IsFault(ans) THEN xfer_faults + 1 ELSE xfer_faults

\* a retry on every status that is not a success
NeedsRetryAnyFailure(ans) == ~ans.raised /\ ans.status # 200

\* if response.status_code == 429
NeedsRetry(ans) == ~ans.raised /\ ans.status = 429

\* the track of the retried call: the loop variable, unchanged
RetryTrack == tracks_sorted[i + 1]

\* lines 79-88: total, transferred, the sort, entry of the loop
Start ==
    /\ xfer_pc = "init"
    /\ tracks_sorted' = IF preserve_order THEN sorted(tracks) ELSE <<>>
    /\ transferred' = 0
    /\ i' = 0
    /\ xfer_pc' = "loop"
    /\ UNCHANGED <<tracks, preserve_order, xfer_log, xfer_faults, fetch_vars, app_vars>>

\* lines 113-123 and 130: count the item, yield progress when due, next item
Counted(track, call) ==
    /\ transferred' = transferred + 1
    /\ xfer_log' = xfer_log \o <<call>> \o
                   (IF ProgressDue(transferred + 1, xfer_total)
                    THEN <<ProgressEvent(transferred + 1, xfer_total, track)>>
                    ELSE <<>>)
    /\ i' = i + 1
    /\ xfer_pc' = "loop"

\* the exception leaves the generator instead of being caught
FailedPropagates(track, call) ==
    /\ transferred' = transferred
    /\ xfer_log' = xfer_log \o <<call>>
    /\ i' = i
    /\ xfer_pc' = "aborted"

\* a failed item that is counted all the same
FailedCounts(track, call) ==
    /\ transferred' = transferred + 1
    /\ xfer_log' = xfer_log \o <<call, ErrorEvent(track)>>
    /\ i' = i + 1
    /\ xfer_pc' = "loop"

\* lines 125-126 and 130: yield the error, next item
Failed(track, call) ==
    /\ transferred' = transferred
    /\ xfer_log' = xfer_log \o <<call, ErrorEvent(track)>>
    /\ i' = i + 1
    /\ xfer_pc' = "loop"

\* lines 88-105: the first call for the next track of tracks_sorted
Attempt ==
    /\ xfer_pc = "loop"
    /\ preserve_order
    /\ i < Len(tracks_sorted)
    /\ \E ans \in PutAnswers :
        LET track == tracks_sorted[i + 1]
            call == PutCall(track, 1, ans)
        IN  /\ Answer(ans)
            /\ IF ans.raised
               THEN Failed(track, call)
               ELSE IF NeedsRetry(ans)
                    THEN /\ xfer_log' = xfer_log \o
                                <<call, RateLimitEvent(retry_after(ans.header))>>
                         /\ xfer_pc' = "retry"
                         /\ UNCHANGED <<transferred, i>>
                    ELSE Counted(track, call)
    /\ UNCHANGED <<tracks, preserve_order, tracks_sorted, fetch_vars, app_vars>>

\* lines 106-111: the one retry after the sleep; its status is not looked at
Retry ==
    /\ xfer_pc = "retry"
    /\ \E ans \in PutAnswers :
        LET track == RetryTrack
            call == PutCall(track, 2, ans)
        IN  /\ Answer(ans)
            /\ IF ans.raised
               THEN Failed(track, call)
               ELSE Counted(track, call)
    /\ UNCHANGED <<tracks, preserve_order, tracks_sorted, fetch_vars, app_vars>>

\* lines 135-149: one batch of the fast mode
Batch ==
    /\ xfer_pc = "loop"
    /\ ~preserve_order
    /\ i < xfer_total
    /\ \E ok \in BOOLEAN :
        LET batch == SubSeq(tracks, i + 1, Min(i + batch_size, Len(tracks)))
            track_ids == [k \in 1..Len(batch) |-> batch[k].id]
        IN  /\ ~ok => xfer_faults < MaxFaults
            /\ xfer_faults' = IF ok THEN xfer_faults ELSE xfer_faults + 1
            /\ IF ok
               THEN /\ transferred' = transferred + Len(batch)
                    /\ xfer_log' = xfer_log \o
                           <<AddCall(track_ids, TRUE),
                             BatchProgressEvent(transferred + Len(batch), xfer_total)>>
               ELSE /\ transferred' = transferred
                    /\ xfer_log' = xfer_log \o
                           <<AddCall(track_ids, FALSE), BatchErrorEvent(i)>>
    /\ i' = i + batch_size
    /\ UNCHANGED <<tracks, preserve_order, tracks_sorted, xfer_pc, fetch_vars, app_vars>>

\* line 151, reached when either loop is exhausted
Complete ==
    /\ xfer_pc = "loop"
    /\ IF preserve_order THEN i = Len(tracks_sorted) ELSE i >= xfer_total
    /\ xfer_log' = Append(xfer_log, CompleteEvent(transferred, xfer_total))
    /\ xfer_pc' = "done"
    /\ UNCHANGED <<tracks, preserve_order, tracks_sorted, transferred, i,
                   xfer_faults, fetch_vars, app_vars>>

TransferNext == Start \/ Attempt \/ Retry \/ Batch \/ Complete

TransferSpec == TransferInit /\ [][TransferNext]_vars

\* the consumer drives the generator to its end and every call is answered
TransferFair == TransferSpec /\ WF_vars(TransferNext)

(***************************************************************************)
(* get_all_saved_tracks                                                    *)
(*                                                                         *)
(* The source serves the library in pages: a request at an offset returns  *)
(* the items offset+1..offset+limit that exist, and a total.  An item is   *)
(* {track, added_at}; track is None for an unavailable track.  A Track     *)
(* event carries id, name and added_at (artists, album and image are       *)
(* copied from the same track object and are left out).                    *)
(***************************************************************************)
Item(k, n, nulls) ==
    [track |-> IF k \in nulls THEN None ELSE Some([id |-> k, name |-> NameOf(k)]),
     added_at |-> n - k + 1]

NullCandidates == {1, limit + 1}

Libraries ==
    {[k \in 1..n |-> Item(k, n, nulls)] :
        n \in LibrarySizes, nulls \in SUBSET NullCandidates}

\* the answers of the source to current_user_saved_tracks
SourceOk(items, reported) == [kind |-> "ok", items |-> items, total |-> reported]
SourceRateLimited(header) == [kind |-> "rate_limit", header |-> header]
SourceError == [kind |-> "error"]

\* the page the source serves at an offset
Page(off) == SubSeq(library, off + 1, Min(off + limit, Len(library)))

\* the total the source reports is the library size, or is off by MaxDrift
\* either way (the library changes while it is read)
ReportedTotals ==
    {Len(library), Len(library) + MaxDrift}
        \cup (IF Len(library) >= MaxDrift THEN {Len(library) - MaxDrift} ELSE {})

\* sp_client.current_user_saved_tracks(limit=limit, offset=offset)
Request(off, kind, reported) ==
    [type |-> "request", offset |-> off, limit |-> limit, kind |-> kind,
     total |-> reported]

TotalEvent(tot) == [type |-> "total", total |-> tot]

TrackEvent(item) ==
    [type |-> "track", id |-> item.track[1].id, name |-> item.track[1].name,
     added_at |-> item.added_at]

FetchProgressEvent(fetched, tot) == [type |-> "progress", fetched |-> fetched, total |-> tot]

HasTrack(item) == item.track # None

\* lines 42-54: one Track event per item whose track is not None
TrackEvents(items) ==
    LET kept == SelectSeq(items, HasTrack)
    IN  [k \in 1..Len(kept) |-> TrackEvent(kept[k])]

\* a Total event on every page
TotalEventsEveryPage(tot, reported) ==
    <<TotalEvent(IF tot = None THEN reported ELSE tot[1])>>

\* lines 34-36: the total is taken, and yielded, only while total is None
TotalEvents(tot, reported) == IF tot = None THEN <<TotalEvent(reported)>> ELSE <<>>

\* an offset that advances by one less than the page size
NextOffsetShort(off) == off + limit - 1

\* line 56: offset += limit
NextOffset(off) == off + limit

\* a rate-limited page that is skipped
OffsetAfterRateLimitSkips(off) == off + limit

\* lines 29-31: continue, with offset as it was
OffsetAfterRateLimit(off) == off

\* a loop that is also left when the offset reaches the total
AfterPageStopsAtTotal(off, tot) == IF off >= tot THEN "done" ELSE "loop"

\* lines 56-57, 23: after a page with items the loop goes round again
AfterPage(off, tot) == "loop"

\* a loop that an empty page does not end
AfterEmptyPageLoops == "loop"

\* lines 39-40: break
AfterEmptyPage == "done"

Requests == Cardinality(Positions(fetch_log, "request"))

\* a run never needs more requests than this: the pages, the empty page and
\* the rate-limited attempts
MaxRequests == (2 * limit + 1) \div limit + 2 + MaxRateLimits

TransferIdle ==
    /\ tracks = <<>>
    /\ preserve_order = TRUE
    /\ tracks_sorted = <<>>
    /\ transferred = 0
    /\ i = 0
    /\ xfer_pc = "idle"
    /\ xfer_log = <<>>
    /\ xfer_faults = 0

FetchInit ==
    /\ library \in Libraries
    /\ offset = 0
    /\ total = None
    /\ fetch_pc = "loop"
    /\ fetch_log = <<>>
    /\ fetch_limited = 0
    /\ TransferIdle
    /\ AppIdle

\* lines 25, 34-57: a page request that succeeds
FetchPage ==
    /\ fetch_pc = "loop"
    /\ Requests < MaxRequests
    /\ \E reported \in ReportedTotals :
        LET results == SourceOk(Page(offset), reported)
            items == results.items
            new_total == IF total = None THEN results.total ELSE total[1]
        IN  /\ total' = Some(new_total)
            /\ IF items = <<>>
               THEN /\ fetch_log' = fetch_log
                           \o <<Request(offset, "ok", Some(reported))>>
                           \o TotalEvents(total, results.total)
                    /\ offset' = offset
                    /\ fetch_pc' = AfterEmptyPage
               ELSE /\ fetch_log' = fetch_log
                           \o <<Request(offset, "ok", Some(reported))>>
                           \o TotalEvents(total, results.total)
                           \o TrackEvents(items)
                           \o <<FetchProgressEvent(Min(NextOffset(offset), new_total),
                                                   new_total)>>
                    /\ offset' = NextOffset(offset)
                    /\ fetch_pc' = AfterPage(NextOffset(offset), new_total)
    /\ UNCHANGED <<library, fetch_limited, xfer_vars, app_vars>>

\* lines 26-31: SpotifyException with http_status 429
FetchRateLimited ==
    /\ fetch_pc = "loop"
    /\ Requests < MaxRequests
    /\ fetch_limited < MaxRateLimits
    /\ \E header \in {NoHeader, RetryAfterHeader(5)} :
        fetch_log' = fetch_log
            \o <<Request(offset, "rate_limit", None),
                 RateLimitEvent(retry_after(header))>>
    /\ fetch_limited' = fetch_limited + 1
    /\ offset' = OffsetAfterRateLimit(offset)
    /\ UNCHANGED <<library, total, fetch_pc, xfer_vars, app_vars>>

\* line 32 (and any exception that is no SpotifyException): the failure
\* leaves the generator
FetchFails ==
    /\ fetch_pc = "loop"
    /\ Requests < MaxRequests
    /\ fetch_log' = Append(fetch_log, Request(offset, "error", None))
    /\ fetch_pc' = "aborted"
    /\ UNCHANGED <<library, offset, total, fetch_limited, xfer_vars, app_vars>>

FetchNext == FetchPage \/ FetchRateLimited \/ FetchFails

FetchSpec == FetchInit /\ [][FetchNext]_vars

\* the consumer drives the generator and every request is answered; the source
\* stops rate limiting after MaxRateLimits answers
FetchFair == FetchSpec /\ WF_vars(FetchNext)

(***************************************************************************)
(* app.py: login and callback.                                             *)
(*                                                                         *)
(* An authorization code is the account whose owner granted it, or "bad"   *)
(* (absent, expired, forged): get_token_from_code raises on a bad code.    *)
(* The token and the user stored for an account type are both that         *)
(* account.                                                                *)
(***************************************************************************)
Accounts == {"A", "B"}
Codes == Accounts \cup {"bad"}
\* secrets.token_hex(16)
Nonces == {"n1", "n2"}

\* state.startswith(prefix)
StartsWith(str, prefix) ==
    Len(prefix) <= Len(str) /\ SubSeq(str, 1, Len(prefix)) = prefix

\* str.split(':')[0]
SplitFirst(str) ==
    LET colons == {p \in 1..Len(str) : str[p] = ":"}
    IN  IF colons = {}
        THEN str
        ELSE SubSeq(str, 1, (CHOOSE p \in colons : \A q \in colons : p <= q) - 1)

\* f"{account_type}:{secrets.token_hex(16)}"
OauthState(account_type, nonce) == account_type \o <<":", nonce>>

\* line 74: account types that login accepts
LoginTypes == {source, dest}

\* lines 71-82
login(account_type, nonce) ==
    /\ IF account_type \notin LoginTypes
       THEN /\ http' = Response("login", "302 index")
            /\ session' = session
       ELSE LET state == OauthState(account_type, nonce)
            IN  /\ session' = Put(session, OauthStateKey, state)
                /\ http' = [Response("login", "302 authorize") EXCEPT !.state = state]
    /\ UNCHANGED <<cache, xfer_vars, fetch_vars>>

\* lines 96-97: the test that a state passes
StateAccepted(state, expected_state) ==
    state # <<>> /\ StartsWith(state, SplitFirst(expected_state))

\* line 93: the error page shows the error argument
ErrorArgument == "error: the error argument"
InvalidState == "error: Invalid state parameter"
AuthenticationFailed == "error: Failed to authenticate"

\* lines 85-119
callback(state, code, error) ==
    LET expected_state == Get(session, OauthStateKey, <<>>)
        account_type == SplitFirst(state)
        stored == Put(Put(session, TokenKey(account_type), code),
                      UserKey(account_type), code)
        reply(status) ==
            [Response("callback", status) EXCEPT !.state = state, !.code = code]
    IN  /\ IF error
           THEN /\ http' = reply(ErrorArgument)
                /\ session' = session
           ELSE IF ~StateAccepted(state, expected_state)
           THEN /\ http' = reply(InvalidState)
                /\ session' = session
           ELSE IF code \notin Accounts
           THEN /\ http' = reply(AuthenticationFailed)
                /\ session' = session
           ELSE IF account_type = source
           THEN /\ session' = Pop(stored, TracksKey)
                /\ http' = reply("302 fetch_tracks")
           ELSE /\ session' = stored
                /\ http' = reply("302 transfer")
        /\ UNCHANGED <<cache, xfer_vars, fetch_vars>>

\* a reset that leaves the file where it is
CacheAfterResetKept == cache

\* lines 244-248: os.remove('.tracks_cache.json'), FileNotFoundError ignored
CacheAfterReset == Absent

\* lines 239-249 (the generators that are running go on)
reset ==
    /\ session' = EmptySession
    /\ cache' = CacheAfterReset
    /\ http' = Response("reset", "302 index")
    /\ UNCHANGED <<xfer_vars, fetch_vars>>

\* the states a browser can send to /callback: none, the states login makes,
\* "source" alone, "sourcex:n1", "evil:n1"
CallbackStates ==
    {<<>>, <<"source">>, <<"source", "x", ":", "n1">>, <<"evil", ":", "n1">>}
        \cup {OauthState(t, n) : t \in LoginTypes, n \in Nonces}

AuthInit == TransferIdle /\ FetchIdle /\ AppIdle

AuthNext ==
    \/ \E t \in LoginTypes \cup {<<"evil">>}, n \in Nonces : login(t, n)
    \/ \E state \in CallbackStates, code \in Codes, error \in BOOLEAN :
            callback(state, code, error)
    \/ reset

\* one browser session against the OAuth routes, every request it can send
AuthSpec == AuthInit /\ [][AuthNext]_vars

(***************************************************************************)
(* app.py: the snapshot file and the routes that write and read it.        *)
(*                                                                         *)
(* fetch_stream returns a generator: it drives get_all_saved_tracks (the   *)
(* actions FetchPage, FetchRateLimited, FetchFails), then opens the file   *)
(* for writing, which truncates it, dumps the list and closes it, and      *)
(* yields Complete.  The opening and the dump are entries of fetch_log.    *)
(* The readers open the file and json.load it in the request handler.      *)
(* Handlers and generator steps of different requests interleave (the      *)
(* server is threaded); the model runs one extraction and one transfer at  *)
(* a time.                                                                 *)
(***************************************************************************)
\* the saved tracks of an account: A has three, the first unavailable; B one
SavedTracks(account) ==
    IF account = "A"
    THEN [k \in 1..3 |-> Item(k, 3, {1})]
    ELSE [k \in 1..1 |-> Item(k, 1, {})]

\* the list an extraction of the account's library dumps
Snapshot(account) == TrackEvents(SavedTracks(account))

\* a session after /login/source, /callback, /login/dest, /callback
LoggedIn(source_account, dest_account) ==
    Put(Put(Put(Put(Put(EmptySession,
        OauthStateKey, OauthState(dest, "n1")),
        TokenKey(source), source_account), UserKey(source), source_account),
        TokenKey(dest), dest_account), UserKey(dest), dest_account)

\* line 141, 144-145: the list generate() collects
generate_tracks ==
    LET IsTrack(e) == e.type = "track"
    IN  SelectSeq(fetch_log, IsTrack)

\* lines 135-137, 154-161: the handler; the generator it returns starts at
\* the first page request
fetch_stream ==
    /\ IF TokenKey(source) \notin DOMAIN session
       THEN /\ http' = Response("fetch_stream", "401")
            /\ UNCHANGED fetch_vars
       ELSE /\ fetch_pc \in {"idle", "complete", "aborted"}
            /\ http' = Response("fetch_stream", "200")
            /\ library' = SavedTracks(session[TokenKey(source)])
            /\ offset' = 0
            /\ total' = None
            /\ fetch_pc' = "loop"
            /\ fetch_log' = <<>>
            /\ fetch_limited' = 0
    /\ UNCHANGED <<session, cache, xfer_vars>>

\* a write that is also done when the extraction has failed
WriteReadyAfterFailure == fetch_pc \in {"done", "aborted"}

\* lines 143-148: the write is reached when the for loop over the generator
\* ends; an exception of the generator leaves generate()
WriteReady == fetch_pc = "done"

\* line 149: open(..., 'w') creates or truncates the file
generate_open ==
    /\ WriteReady
    /\ cache' = Truncated
    /\ fetch_log' = Append(fetch_log, [type |-> "open"])
    /\ fetch_pc' = "open"
    /\ UNCHANGED <<library, offset, total, fetch_limited, session, http, xfer_vars>>

\* line 150 and the end of the with block: the JSON is in the file when it
\* is closed (a file removed meanwhile stays removed)
generate_dump ==
    /\ fetch_pc = "open"
    /\ cache' = IF cache = Truncated THEN Written(generate_tracks) ELSE cache
    /\ fetch_log' = Append(fetch_log, [type |-> "dump", tracks |-> generate_tracks])
    /\ fetch_pc' = "written"
    /\ UNCHANGED <<library, offset, total, fetch_limited, session, http, xfer_vars>>

\* a Complete event that reports the total of the API
FetchCompleteEventOfTotal(list) == [type |-> "complete", count |-> total[1]]

\* line 152: {'type': 'complete', 'count': len(tracks)}
FetchCompleteEvent(list) == [type |-> "complete", count |-> Len(list)]

\* line 152
generate_complete ==
    /\ fetch_pc = "written"
    /\ fetch_log' = Append(fetch_log, FetchCompleteEvent(generate_tracks))
    /\ fetch_pc' = "complete"
    /\ UNCHANGED <<library, offset, total, fetch_limited, app_vars, xfer_vars>>

\* open(..., 'r') and json.load: FileNotFoundError when the file is absent,
\* JSONDecodeError (not caught: a 500) when it does not hold a whole document
Read(route, found) ==
    IF ~cache.exists THEN Response(route, "302 fetch_tracks")
    ELSE [Response(route, IF cache.complete THEN found ELSE "500 JSONDecodeError")
             EXCEPT !.seen = cache]

\* lines 164-181
show_tracks ==
    /\ http' = IF UserKey(source) \notin DOMAIN session
               THEN Response("tracks", "302 index")
               ELSE Read("tracks", "200")
    /\ UNCHANGED <<session, cache, xfer_vars, fetch_vars>>

\* lines 184-205
transfer ==
    /\ http' = IF UserKey(source) \notin DOMAIN session
               THEN Response("transfer", "302 index")
               ELSE IF UserKey(dest) \notin DOMAIN session
               THEN Response("transfer", "302 show_tracks")
               ELSE Read("transfer", "200")
    /\ UNCHANGED <<session, cache, xfer_vars, fetch_vars>>

\* a handler that goes on without the file
CacheMissingIgnored == FALSE

\* lines 216-220: except FileNotFoundError
CacheMissing == ~cache.exists

\* lines 208-236: the handler; the generator it returns is transfer_tracks in
\* ordered mode on the list it read
transfer_stream ==
    /\ IF TokenKey(dest) \notin DOMAIN session
       THEN /\ http' = Response("transfer_stream", "401")
            /\ UNCHANGED xfer_vars
       ELSE IF CacheMissing
       THEN /\ http' = Response("transfer_stream", "400")
            /\ UNCHANGED xfer_vars
       ELSE IF ~cache.complete
       THEN /\ http' = [Response("transfer_stream", "500 JSONDecodeError")
                           EXCEPT !.seen = cache]
            /\ UNCHANGED xfer_vars
       ELSE /\ xfer_pc \in {"idle", "done"}
            /\ http' = [Response("transfer_stream", "200") EXCEPT !.seen = cache]
            /\ tracks' = cache.tracks
            /\ preserve_order' = TRUE
            /\ tracks_sorted' = <<>>
            /\ transferred' = 0
            /\ i' = 0
            /\ xfer_pc' = "init"
            /\ xfer_log' = <<>>
            /\ xfer_faults' = 0
    /\ UNCHANGED <<session, cache, fetch_vars>>

\* both accounts are connected; the file is absent or holds the list of an
\* earlier extraction
FetchStreamInit ==
    /\ session = LoggedIn("A", "B")
    /\ cache \in {Absent, Written(Snapshot("B"))}
    /\ http = NoResponse
    /\ TransferIdle
    /\ FetchIdle

FetchStreamNext ==
    \/ fetch_stream
    \/ FetchPage
    \/ FetchRateLimited
    \/ FetchFails
    \/ generate_open
    \/ generate_dump
    \/ generate_complete
    \/ show_tracks
    \/ transfer
    \/ transfer_stream

\* an extraction by /fetch/stream while the readers of the file are requested
\* (the generator that transfer_stream returns is not run here: its steps
\* touch neither the file nor the extraction)
FetchStreamSpec == FetchStreamInit /\ [][FetchStreamNext]_vars

\* no account is connected; the file is absent, or was left by an extraction
\* of account A's library
TransferStreamInit ==
    /\ session = EmptySession
    /\ cache \in {Absent, Written(Snapshot("A"))}
    /\ http = NoResponse
    /\ TransferIdle
    /\ FetchIdle

TransferStreamNext ==
    \/ \E t \in LoginTypes : login(t, "n1")
    \/ /\ OauthStateKey \in DOMAIN session
       /\ \E code \in Codes : callback(session[OauthStateKey], code, FALSE)
    \/ show_tracks
    \/ transfer
    \/ transfer_stream
    \/ Start
    \/ Attempt
    \/ Retry
    \/ Complete
    \/ reset

\* a browser that follows the OAuth redirects, requests the pages that read
\* the file, /transfer/stream and /reset, and reads the stream to its end
TransferStreamSpec == TransferStreamInit /\ [][TransferStreamNext]_vars

(***************************************************************************)
(* Properties of transfer_tracks.                                          *)
(***************************************************************************)
IsPut(e) == e.type = "put"
IsFirstPut(e) == e.type = "put" /\ e.attempt = 1
Puts == SelectSeq(xfer_log, IsPut)
FirstPuts == SelectSeq(xfer_log, IsFirstPut)

\* position of tracks[k] in the stable ascending order by added_at
Rank(k) ==
    1 + Cardinality({j \in 1..Len(tracks) :
            \/ tracks[j].added_at < tracks[k].added_at
            \/ tracks[j].added_at = tracks[k].added_at /\ j < k})

ExpectedFirst(r) == tracks[CHOOSE k \in 1..Len(tracks) : Rank(k) = r]

\* C1: in ordered mode the first-attempt calls are, in order, the records of
\* the snapshot sorted ascending by added_at with ties in input order: always a
\* prefix of that sequence, and all of it once the run is done.
C1_FirstAttemptsInStableOrder ==
    (preserve_order /\ xfer_pc # "init") =>
        /\ Len(FirstPuts) <= Len(tracks)
        /\ \A r \in 1..Len(FirstPuts) : FirstPuts[r].id = ExpectedFirst(r).id
        /\ xfer_pc = "done" => Len(FirstPuts) = Len(tracks)

C1_Witness ==
    /\ preserve_order
    /\ xfer_pc = "done"
    /\ xfer_faults > 0
    /\ \E j, k \in 1..Len(tracks) :
          j < k /\ tracks[j].added_at > tracks[k].added_at
    /\ \E j, k \in 1..Len(tracks) :
          j < k /\ tracks[j].added_at = tracks[k].added_at /\ tracks[j].id # tracks[k].id

\* the call a step issues, when it issues one
StepCalls == Len(xfer_log') > Len(xfer_log) /\ xfer_log'[Len(xfer_log) + 1].type = "put"
StepCall == xfer_log'[Len(xfer_log) + 1]
FailsOtherThanRateLimit(ans) == ans.raised \/ ans.status \notin {200, 429}

\* C2: in ordered mode a first call that fails for a reason other than a rate
\* limit (raised exception, or non-success non-429 response) yields an Error
\* event with the track's name, leaves transferred as it was, and the run goes
\* on with the next item.
C2_FailedItemIsError ==
    [][(preserve_order /\ StepCalls /\ StepCall.attempt = 1
            /\ FailsOtherThanRateLimit(StepCall.answer)) =>
        /\ Last(xfer_log') = ErrorEvent(tracks_sorted[i + 1])
        /\ transferred' = transferred
        /\ i' = i + 1
        /\ xfer_pc' = "loop"]_vars

\* C3: in ordered mode a retry that is rate-limited again, or fails otherwise,
\* yields an Error event for the item and does not count it.
C3_FailedRetryIsError ==
    [][(preserve_order /\ StepCalls /\ StepCall.attempt = 2
            /\ (StepCall.answer.raised \/ StepCall.answer.status # 200)) =>
        /\ Last(xfer_log') = ErrorEvent(tracks_sorted[i + 1])
        /\ transferred' = transferred]_vars

\* C4: in ordered mode a second call is issued only right after a RateLimited
\* event that follows a first call answered 429, and for the same id; the call
\* after a second call is a first call (the next item); there is one first call
\* per item reached; so at most 2n calls for n records.
C4_AtMostOneRetry ==
    preserve_order =>
        /\ \A p \in 1..Len(xfer_log) :
              (xfer_log[p].type = "put" /\ xfer_log[p].attempt = 2) =>
                  /\ p >= 3
                  /\ xfer_log[p - 1].type = "rate_limit"
                  /\ xfer_log[p - 2].type = "put"
                  /\ xfer_log[p - 2].attempt = 1
                  /\ ~xfer_log[p - 2].answer.raised
                  /\ xfer_log[p - 2].answer.status = 429
                  /\ xfer_log[p - 2].id = xfer_log[p].id
        /\ \A q \in 1..Len(Puts) - 1 : Puts[q].attempt = 2 => Puts[q + 1].attempt = 1
        /\ Len(FirstPuts) = i + (IF xfer_pc = "retry" THEN 1 ELSE 0)
        /\ Len(Puts) <= 2 * Len(tracks)

C4_Witness ==
    /\ preserve_order
    /\ xfer_pc = "done"
    /\ \E q \in 1..Len(Puts) - 1 :
          /\ Puts[q].attempt = 2
          /\ Puts[q].answer.status = 429
          /\ Puts[q + 1].id # Puts[q].id

CompleteIsLast ==
    /\ Positions(xfer_log, "complete") = {Len(xfer_log)}
    /\ Last(xfer_log) = CompleteEvent(transferred, Len(tracks))

\* C5: in both modes every run ends, and its log then holds exactly one
\* Complete event, the last entry, with the final transferred count and
\* total = number of records of the snapshot; before the end there is none.
C5_AlwaysCompletes ==
    /\ <>(xfer_pc = "done")
    /\ [](xfer_pc = "done" => CompleteIsLast)
    /\ [](xfer_pc # "done" => Positions(xfer_log, "complete") = {})

C5_Witness ==
    /\ xfer_pc = "done"
    /\ ~preserve_order
    /\ Len(tracks) > batch_size
    /\ 0 < transferred
    /\ transferred < Len(tracks)

\* C6: in ordered mode a Progress event follows a counted item exactly when the
\* count is then a multiple of 10 or the item is the last of the sorted
\* sequence, and no Progress event follows any other item.
C6_ProgressOnTenthAndFinal ==
    [][(preserve_order /\ StepCalls) =>
        IF transferred' = transferred + 1
        THEN Last(xfer_log').type = "progress"
                <=> (transferred' % 10 = 0 \/ i' = Len(tracks_sorted))
        ELSE Last(xfer_log').type # "progress"]_vars

Errors == Cardinality(Positions(xfer_log, "error"))

\* C19: in ordered mode transferred never exceeds total, and transferred plus
\* the number of Error events is the number of items fully processed (the loop
\* index); at Complete that sum is total, and transferred = total exactly
\* when there was no Error event.
C19_CountsAddUp ==
    (preserve_order /\ xfer_pc # "init") =>
        /\ transferred <= xfer_total
        /\ transferred + Errors = i
        /\ i <= xfer_total
        /\ xfer_pc = "done" =>
              /\ transferred + Errors = xfer_total
              /\ transferred = xfer_total <=> Errors = 0
              /\ Last(xfer_log) = CompleteEvent(xfer_total - Errors, xfer_total)

C19_Witness ==
    /\ preserve_order
    /\ xfer_pc = "done"
    /\ Errors > 0
    /\ 0 < transferred
    /\ transferred + Errors = xfer_total
    /\ \E p \in Positions(xfer_log, "rate_limit") : p < Len(xfer_log)

RejectedPuts ==
    {p \in Positions(xfer_log, "put") :
        ~xfer_log[p].answer.raised /\ xfer_log[p].answer.status = 401}

\* C16 (destination half): an insertion call answered 401, the rejection of
\* the bearer credential, is the last thing the run does: no call and no
\* event follows it, and the run neither goes on nor completes.
C16_RejectedCredentialIsFatal ==
    \A p \in RejectedPuts :
        /\ p = Len(xfer_log)
        /\ xfer_pc \notin {"loop", "retry", "done"}

(***************************************************************************)
(* Properties of get_all_saved_tracks.                                     *)
(***************************************************************************)
IsTrackEvent(e) == e.type = "track"
EmittedIds ==
    LET emitted == SelectSeq(fetch_log, IsTrackEvent)
    IN  [k \in 1..Len(emitted) |-> emitted[k].id]

IsAvailable(item) == item.track # None
LibraryIds ==
    LET available == SelectSeq(library, IsAvailable)
    IN  [k \in 1..Len(available) |-> available[k].track[1].id]

RateLimitedRequests ==
    {p \in Positions(fetch_log, "request") : fetch_log[p].kind = "rate_limit"}
OkRequests == {p \in Positions(fetch_log, "request") : fetch_log[p].kind = "ok"}

\* C7: a rate-limited page request is followed by a RateLimited event and
\* nothing else; the request after it, if any, has the same offset, and until
\* then the offset is the one of the rate-limited request.
C7_RateLimitKeepsOffset ==
    \A p \in RateLimitedRequests :
        /\ p + 1 <= Len(fetch_log)
        /\ fetch_log[p + 1].type = "rate_limit"
        /\ IF p + 2 <= Len(fetch_log)
           THEN /\ fetch_log[p + 2].type = "request"
                /\ fetch_log[p + 2].offset = fetch_log[p].offset
           ELSE offset = fetch_log[p].offset

C7_Witness ==
    \E p \in RateLimitedRequests :
        /\ fetch_log[p].offset > 0
        /\ p + 4 <= Len(fetch_log)
        /\ p + 2 \in RateLimitedRequests
        /\ p + 4 \in OkRequests
        /\ Positions(fetch_log, "track") # {}

\* C8: the Track events are, in order, the items of the library whose track
\* is not None: always a prefix of them, and all of them when the loop is left.
C8_TracksAreTheLibrary ==
    /\ Len(EmittedIds) <= Len(LibraryIds)
    /\ EmittedIds = SubSeq(LibraryIds, 1, Len(EmittedIds))
    /\ fetch_pc = "done" => EmittedIds = LibraryIds

C8_Witness ==
    /\ fetch_pc = "done"
    /\ Len(library) > 2 * limit
    /\ Len(LibraryIds) = Len(library) - 2
    /\ fetch_limited > 0
    /\ Len(EmittedIds) = Len(library) - 2

\* C9: once a page request has succeeded the log holds exactly one Total
\* event: right after the first successful request, with the total that
\* request reported, and before every Track and Progress event; before any
\* success there is none.
C9_ExactlyOneTotal ==
    IF OkRequests = {}
    THEN Positions(fetch_log, "total") = {}
    ELSE LET first == CHOOSE p \in OkRequests : \A q \in OkRequests : p <= q
         IN  /\ Positions(fetch_log, "total") = {first + 1}
             /\ fetch_log[first + 1].total = fetch_log[first].total[1]
             /\ \A p \in Positions(fetch_log, "track") \cup Positions(fetch_log, "progress") :
                    p > first + 1

C9_Witness ==
    /\ fetch_pc = "done"
    /\ \E p \in RateLimitedRequests : \A q \in OkRequests : p < q
    /\ \E p, q \in OkRequests : fetch_log[p].total # fetch_log[q].total
    /\ \E p \in RateLimitedRequests : \E q \in OkRequests : q < p

\* C10: every run of the extraction ends: the loop is left on an empty page, or
\* a failure other than a rate limit aborts it.
C10_FetchTerminates == <>(fetch_pc \in {"done", "aborted"})

C10_Witness ==
    /\ fetch_pc = "done"
    /\ fetch_limited = MaxRateLimits
    /\ Cardinality(OkRequests) >= 3

\* the last page request of the run, and whether it succeeded with no items
LastRequest ==
    LET requests == Positions(fetch_log, "request")
    IN  fetch_log[CHOOSE p \in requests : \A q \in requests : q <= p]
IsEmptyPage(r) == r.kind = "ok" /\ Page(r.offset) = <<>>

\* C18: the loop is left exactly when a successful request returns no items:
\* it has been left only if the last request is one, no request follows such
\* a request, and while the last request is none the loop is still running
\* (or was aborted by a failure), whatever the offset and the reported total.
C18_ExitsOnlyOnEmptyPage ==
    LET requests == Positions(fetch_log, "request")
        empty == {p \in requests : IsEmptyPage(fetch_log[p])}
    IN  /\ \A p \in empty :
               /\ \A q \in requests : q <= p
               /\ fetch_pc \notin {"loop", "aborted"}
        /\ fetch_pc = "done" => empty # {}
        /\ fetch_pc = "aborted" =>
               \E p \in requests :
                   /\ fetch_log[p].kind = "error"
                   /\ \A q \in requests : q <= p

\* a run that asked for, and got, a page with items at an offset at or past
\* the reported total, and a run whose empty page was asked for at the total
C18_Witness ==
    /\ fetch_pc = "done"
    /\ \E p \in OkRequests :
          /\ fetch_log[p].offset >= total[1]
          /\ Page(fetch_log[p].offset) # <<>>
    /\ LastRequest.offset > total[1]

(***************************************************************************)
(* Properties of the routes of app.py.                                     *)
(***************************************************************************)
\* the step is the handling of a request by the route
Handles(route) == http' # http /\ http'.route = route

\* C20: a callback (that carries no error argument) whose state is not the
\* oauth_state stored in the session, or that arrives when none is stored,
\* is answered 'Invalid state parameter' and leaves the session as it was;
\* and every key a callback adds to the session is for 'source' or 'dest'.
C20_CallbackChecksState ==
    [][(Handles("callback") /\ http'.status # ErrorArgument) =>
        /\ (OauthStateKey \notin DOMAIN session
                \/ http'.state # session[OauthStateKey]) =>
              /\ http'.status = InvalidState
              /\ session' = session
        /\ \A key \in DOMAIN session' \ DOMAIN session : key[1] \in LoginTypes]_vars

\* C11: the Complete event of an extraction driven by fetch_stream is the
\* last entry of the run; the page requests, the last of them answered with
\* an empty page, then the opening and the dump of the file come before it;
\* its count is the number of Track events of the run and the length of the
\* list that was dumped, which is what the file holds.
C11_CompleteAfterLoopAndWrite ==
    /\ \A p \in Positions(fetch_log, "complete") :
          /\ p = Len(fetch_log)
          /\ fetch_pc = "complete"
          /\ p >= 3
          /\ fetch_log[p - 1].type = "dump"
          /\ fetch_log[p - 2].type = "open"
          /\ \A q \in Positions(fetch_log, "request") : q < p - 2
          /\ IsEmptyPage(LastRequest)
          /\ fetch_log[p].count = Cardinality(Positions(fetch_log, "track"))
          /\ fetch_log[p].count = Len(fetch_log[p - 1].tracks)
          /\ cache = Written(fetch_log[p - 1].tracks)
    /\ fetch_pc = "complete" => Positions(fetch_log, "complete") # {}

C11_Witness ==
    /\ fetch_pc = "complete"
    /\ Last(fetch_log).count = 2
    /\ Len(library) = 3
    /\ fetch_limited > 0
    /\ total # None
    /\ total[1] # 2

\* C12: a page request that fails otherwise than by a rate limit ends the
\* run: the failed request is the last entry of its log, the file is as it
\* was before the request, and from then on the log and the file stay as
\* they are (no request, no event, no write) until fetch_stream starts a
\* new run.
C12_FailureAbortsExtraction ==
    [][/\ (fetch_pc = "loop" /\ Len(fetch_log') > Len(fetch_log)
              /\ fetch_log'[Len(fetch_log) + 1].type = "request"
              /\ fetch_log'[Len(fetch_log) + 1].kind = "error") =>
            /\ fetch_pc' = "aborted"
            /\ fetch_log' = Append(fetch_log, fetch_log'[Len(fetch_log) + 1])
            /\ cache' = cache
       /\ fetch_pc = "aborted" =>
            /\ cache' = cache
            /\ \/ fetch_log' = fetch_log /\ fetch_pc' = "aborted"
               \/ fetch_log' = <<>> /\ fetch_pc' = "loop" /\ offset' = 0]_vars

C12_Witness ==
    /\ fetch_pc = "aborted"
    /\ Positions(fetch_log, "track") # {}
    /\ cache = Written(Snapshot("B"))
    /\ http.route = "tracks"
    /\ http.seen = cache

\* C14: whatever a reader of the file (show_tracks, transfer,
\* transfer_stream) saw while an extraction was writing it, it is the absence
\* of the file or a whole list, never a file opened for writing and not yet
\* dumped.
C14_ReadersSeeWholeSnapshots ==
    http.route \in {"tracks", "transfer", "transfer_stream"} =>
        (http.seen.exists => http.seen.complete)

\* the step that yields the Complete event of a transfer run
YieldsComplete == xfer_pc = "loop" /\ xfer_pc' = "done"
\* the step in which transfer_stream starts a run
StartsRun == xfer_pc \in {"idle", "done"} /\ xfer_pc' = "init"

\* C13 as stated: once a transfer run has yielded Complete the file is
\* gone, and it is gone after reset.
C13_SnapshotDiscardedAfterTransfer ==
    [][/\ YieldsComplete => ~cache'.exists
       /\ Handles("reset") => ~cache'.exists]_vars

\* C13, amended: a transfer run leaves the file as it is, Complete included,
\* and a further run started by transfer_stream after Complete gets the same
\* list; only reset changes the file, and it removes it.
C13_SnapshotKeptUntilReset ==
    [][/\ YieldsComplete => cache' = cache
       /\ (StartsRun /\ xfer_pc = "done") => (tracks' = tracks /\ cache' = Written(tracks))
       /\ Handles("reset") => cache' = Absent
       /\ cache' # cache => Handles("reset")]_vars

C13_Witness ==
    /\ xfer_pc = "done"
    /\ transferred > 0
    /\ cache = Written(tracks)
    /\ http.route = "transfer"
    /\ http.status = "200"

\* C15: a transfer_stream request that finds no file, or no dest_token in
\* the session, is answered 400 or 401 and starts no run: the transfer
\* state, log included, is as it was, so no call is issued and no event
\* yielded for it.
C15_PreconditionFailureStartsNothing ==
    [][(~cache.exists \/ TokenKey(dest) \notin DOMAIN session) =>
        /\ ~StartsRun
        /\ Handles("transfer_stream") =>
              /\ http'.status \in {"400", "401"}
              /\ UNCHANGED xfer_vars]_vars

C15_Witness ==
    /\ http.route = "transfer_stream"
    /\ http.status = "400"
    /\ TokenKey(dest) \in DOMAIN session
    /\ xfer_pc = "done"
    /\ Last(xfer_log).type = "complete"

\* C17: a callback that connects a source account leaves no file behind, so
\* that no list extracted before it can be read afterwards.
C17_SourceCallbackClearsSnapshot ==
    [][(Handles("callback") /\ http'.status = "302 fetch_tracks") =>
          ~cache'.exists]_vars

====
